---- MODULE Spec2Model ----
(***************************************************************************)
(* The stochastic L-system rewriter of hongb007/lindenmayer:               *)
(* utils/rule.py (Rule), algorithm/lsystem.py (LSystem) and the scripts    *)
(* that drive them.                                                        *)
(*                                                                         *)
(* A Python str is a sequence of one-character strings.  A weight and a    *)
(* uniform draw are integers counting units of 1/Scale: the weight 1.0 is  *)
(* Scale, and a draw of np.random.uniform(0, 1), which lies in [0, 1), is  *)
(* one of 0 .. Scale-1.                                                    *)
(***************************************************************************)
EXTENDS Integers, Sequences, FiniteSets, TLC

\* ------------------------------------------------------------------ bounds

\* Units per 1.0 of weight and of draw.
Scale == 3
\* Longest axiom.
MaxLen == 2
\* Generations one LSystem rewrites in all, over all its iterate calls.
MaxGen == 2
\* Draws a seeded generator hands out, for each world the process makes,
\* before the model stops following it.
MaxDraws == 3
\* Worlds of one run of tree_world_gen.py.
MaxWorlds == 2
\* Longest string handed to the interpreter as such.
MaxSymbols == 3
\* Most trees asked of generate_batch_trees.
MaxBatches == 2

One == Scale
Draws == 0 .. (Scale - 1)

\* ----------------------------------------------------------------- strings

F == <<"F">>
R == <<"R">>
X == <<"X">>
Y == <<"Y">>
FF == <<"F", "F">>
FR == <<"F", "R">>
FRF == <<"F", "R", "F">>
FFFR == <<"F", "F", "F", "R">>
FRFR == <<"F", "R", "F", "R">>
FRFRFRFR == <<"F", "R", "F", "R", "F", "R", "F", "R">>

RECURSIVE StringsUpTo(_)
StringsUpTo(n) ==
  IF n = 0 THEN {<<>>}
  ELSE LET shorter == StringsUpTo(n - 1)
       IN shorter \cup {Append(s, c) : s \in shorter, c \in {"F", "R"}}

\* Axiom(...).initial_state of the shipped grammars is a string over the
\* grammar's symbols; here every string over F, R up to MaxLen.
Axioms == StringsUpTo(MaxLen)

\* ------------------------------------------------------------- rule tables

\* BASIC_EXAMPLE's rule list.
BASIC_EXAMPLE == << <<F, FRF, One>>, <<F, FFFR, 0>> >>
\* SETH_TREE's shape: a pattern F and a longer pattern FF, both of weight 1.0.
LONGEST_EXAMPLE == << <<F, X, One>>, <<FF, Y, One>> >>
\* The longer pattern has weight 0.
ZERO_LONGEST == << <<F, X, One>>, <<FF, Y, 0>> >>
\* The longest-match group's weights sum to less than 1.
SUB_UNITY == << <<FF, Y, 1>>, <<F, X, One>> >>
\* Two rules of one pattern, each of weight 1/Scale.
STOCHASTIC == << <<F, X, 1>>, <<F, Y, 1>> >>
\* A zero-weight rule ahead of a rule of the same pattern.
ZERO_FIRST == << <<F, X, 0>>, <<F, Y, One>> >>
\* A negative weight.
NEGATIVE == << <<F, X, 0 - 1>>, <<F, Y, One>> >>

\* TREE_EXAMPLE's shape: two rules of the same pattern and the same
\* replacement, of weight 0.5 each, which share one counter.
Half == Scale \div 2
DUPLICATE_RULES == << <<F, X, Half>>, <<F, X, Half>>, <<R, F, One>> >>

InputTables ==
  {BASIC_EXAMPLE, LONGEST_EXAMPLE, ZERO_LONGEST, SUB_UNITY, STOCHASTIC,
   ZERO_FIRST, NEGATIVE, DUPLICATE_RULES}

\* The arguments remove_symbol is called with.
RemoveArgs == {F, R, X, FF}

\* ------------------------------------------------------------ utils/rule.py

\* Rule.process_rules: every input triple becomes a dict, in order.
process_rules(input) ==
  [k \in 1 .. Len(input) |->
     [symbol |-> input[k][1], new_symbol |-> input[k][2], chance |-> input[k][3]]]

\* ------------------------------------------------------ algorithm/lsystem.py

\* f"{r['symbol']} -> {r['new_symbol']}"
rule_key(r) == r.symbol \o <<" ", "-", ">", " ">> \o r.new_symbol

\* LSystem.__init__: one counter per key, all 0.
InitMatchedRules(list) ==
  [key \in {rule_key(list[k]) : k \in 1 .. Len(list)} |-> 0]

\* initial_state[a : b] for 0 <= a <= b <= len
Slice(s, a, b) == SubSeq(s, a + 1, b)

\* The test of match_rule's first loop: the pattern fits in what is left of
\* the string and equals the window at current_index.
Matches(r, initial_state, current_index) ==
  /\ current_index <= Len(initial_state) - Len(r.symbol)
  /\ Slice(initial_state, current_index, current_index + Len(r.symbol)) = r.symbol

\* Mutant: rules of weight 0 are dropped before the longest match is taken.
valid_outputs_nonzero(list, initial_state, current_index) ==
  SelectSeq(list, LAMBDA r : r.chance # 0 /\ Matches(r, initial_state, current_index))

valid_outputs(list, initial_state, current_index) ==
  SelectSeq(list, LAMBDA r : Matches(r, initial_state, current_index))

RECURSIVE MaxSymbolLen(_, _)
MaxSymbolLen(valid, k) ==
  IF k > Len(valid) THEN 0
  ELSE LET rest == MaxSymbolLen(valid, k + 1)
       IN IF Len(valid[k].symbol) >= rest THEN Len(valid[k].symbol) ELSE rest

longest_symbol_len(valid) == MaxSymbolLen(valid, 1)

\* Mutant: shorter matches are not discarded.
prioritized_rules_unfiltered(valid) == valid

prioritized_rules(valid) ==
  SelectSeq(valid, LAMBDA r : Len(r.symbol) = longest_symbol_len(valid))

\* Lines 55-56: a zero weight adds nothing.
Accumulate(added_prob, current_chance) ==
  IF current_chance # 0 THEN added_prob + current_chance ELSE added_prob

\* Mutant: the draw must be strictly below the accumulated weight.
Chosen_strict(current_chance, added_prob, chance_limit) ==
  current_chance # 0 /\ chance_limit < added_prob

\* Mutant: weight 0 is not skipped.
Chosen_zero_included(current_chance, added_prob, chance_limit) ==
  chance_limit <= added_prob

\* Lines 55 and 57: the candidate fires when its weight is not 0 and the draw
\* is at most the accumulated weight.
Chosen(current_chance, added_prob, chance_limit) ==
  current_chance # 0 /\ chance_limit <= added_prob

\* The second loop: the index in prioritized of the rule that fires, 0 if none.
RECURSIVE SelectLoop(_, _, _, _)
SelectLoop(prioritized, k, added_prob, chance_limit) ==
  IF k > Len(prioritized) THEN 0
  ELSE LET acc == Accumulate(added_prob, prioritized[k].chance)
       IN IF Chosen(prioritized[k].chance, acc, chance_limit)
          THEN k
          ELSE SelectLoop(prioritized, k + 1, acc, chance_limit)

\* Mutant: the rest of the string is returned, not the one symbol.
NoMatchResult_rest(initial_state, current_index) ==
  [old_symbol_length |-> 1,
   new_symbol |-> Slice(initial_state, current_index, Len(initial_state)),
   fired |-> <<>>]

\* Line 40: what match_rule returns when no rule matches.
NoMatchResult(initial_state, current_index) ==
  [old_symbol_length |-> 1,
   new_symbol |-> <<initial_state[current_index + 1]>>,
   fired |-> <<>>]

\* Mutant: the fallback returns one symbol, as the no-match case does.
FallbackResult_single(initial_state, current_index, longest) ==
  [old_symbol_length |-> 1,
   new_symbol |-> <<initial_state[current_index + 1]>>,
   fired |-> <<>>]

\* Line 63: what match_rule returns when rules match and none fires.
FallbackResult(initial_state, current_index, longest) ==
  [old_symbol_length |-> longest,
   new_symbol |-> Slice(initial_state, current_index, current_index + longest),
   fired |-> <<>>]

\* Lines 58-60: what match_rule returns when rule r fires.
\* Mutant: the cursor moves by the replacement's length.
FiredResult_newlen(r) ==
  [old_symbol_length |-> Len(r.new_symbol),
   new_symbol |-> r.new_symbol,
   fired |-> <<r>>]

FiredResult(r) ==
  [old_symbol_length |-> Len(r.symbol),
   new_symbol |-> r.new_symbol,
   fired |-> <<r>>]

\* match_rule with the draw of line 50 given: the pair it returns, and in
\* fired the rule whose counter it increments, if any.
match_rule(list, initial_state, current_index, chance_limit) ==
  LET valid == valid_outputs(list, initial_state, current_index)
      prioritized == prioritized_rules(valid)
      k == SelectLoop(prioritized, 1, 0, chance_limit)
  IN IF valid = <<>> THEN NoMatchResult(initial_state, current_index)
     ELSE IF k # 0 THEN FiredResult(prioritized[k])
     ELSE FallbackResult(initial_state, current_index, longest_symbol_len(valid))

\* Line 59.
\* Mutant: a firing adds 2 to its counter.
Count_twice(matched, fired) ==
  IF fired = <<>> THEN matched
  ELSE [matched EXCEPT ![rule_key(fired[1])] = @ + 2]

\* Mutant: a firing sets its counter to 1 instead of adding 1 to it.
Count_assign(matched, fired) ==
  IF fired = <<>> THEN matched
  ELSE [matched EXCEPT ![rule_key(fired[1])] = 1]

Count(matched, fired) ==
  IF fired = <<>> THEN matched
  ELSE [matched EXCEPT ![rule_key(fired[1])] = @ + 1]

\* Mutant: the result is put in front of the string built so far.
Emit_prepend(new_state, new_symbol) == new_symbol \o new_state

\* Line 72.
Emit(new_state, new_symbol) == new_state \o new_symbol

\* str.replace(symbol, ''): scanning from the left, every non-overlapping
\* occurrence of symbol is dropped; an empty symbol changes nothing.
RECURSIVE Replace(_, _)
Replace(s, symbol) ==
  IF symbol = <<>> \/ Len(s) < Len(symbol) THEN s
  ELSE IF SubSeq(s, 1, Len(symbol)) = symbol
       THEN Replace(SubSeq(s, Len(symbol) + 1, Len(s)), symbol)
       ELSE <<s[1]>> \o Replace(Tail(s), symbol)

\* Mutant: str.replace(symbol, '', 1), only the first occurrence is dropped.
RECURSIVE ReplaceFirst(_, _)
ReplaceFirst(s, symbol) ==
  IF symbol = <<>> \/ Len(s) < Len(symbol) THEN s
  ELSE IF SubSeq(s, 1, Len(symbol)) = symbol
       THEN SubSeq(s, Len(symbol) + 1, Len(s))
       ELSE <<s[1]>> \o ReplaceFirst(Tail(s), symbol)

remove_symbol_first(s, symbol) == ReplaceFirst(s, symbol)

\* LSystem.remove_symbol's new state.
remove_symbol(s, symbol) == Replace(s, symbol)

\* -------------------------------------------------------------- numpy.random

\* The generator np.random draws from: pos counts the draws it has handed out
\* in this process since it was last seeded.  Seeded, its draws are a function
\* of the seed, and tape holds the ones made so far since the seed was first
\* set.  Unseeded (run.py), a draw is any value.
Unseeded == [seeded |-> FALSE, tape |-> <<>>, pos |-> 0]

\* Mutant: np.random.seed(), which seeds from the system's entropy.
Seeded_entropy(g) == [seeded |-> FALSE, tape |-> g.tape, pos |-> 0]

\* np.random.seed(0)
Seeded(g) == [seeded |-> TRUE, tape |-> g.tape, pos |-> 0]

\* np.random.uniform(0, 1) may return the draws us, in order; the model
\* follows a seeded generator up to its draw number cap.
CanDraw(g, us, cap) ==
  g.seeded =>
    /\ g.pos + Len(us) <= cap
    /\ \A k \in 1 .. Len(us) :
         g.pos + k <= Len(g.tape) => g.tape[g.pos + k] = us[k]

\* The generator after it returned the draws us.
AfterDraw(g, us) ==
  IF ~g.seeded THEN [g EXCEPT !.pos = @ + Len(us)]
  ELSE [g EXCEPT !.pos = @ + Len(us),
                 !.tape = @ \o SubSeq(us, Len(@) - g.pos + 1, Len(us))]

\* ------------------------------------------------ algorithm/lsystem_tree.py

\* The interpreter of the final string: one pass, left to right, which turns
\* the symbols into branch segments.  Lengths are in units of 0.1, angles are
\* whole quarter turns so that orientations stay integer vectors, and a
\* diameter is the fraction <<numerator, denominator>>.

TurtleAlphabet ==
  {"F", "S", "f", "[", "]", "+", "-", "&", "^", "\\", "/", "|", "A"}

\* The strings of up to n of the interpreter's symbols.
RECURSIVE SymbolsUpTo(_)
SymbolsUpTo(n) ==
  IF n = 0 THEN {<<>>}
  ELSE LET shorter == SymbolsUpTo(n - 1)
       IN  shorter \cup {Append(s, c) : s \in shorter, c \in TurtleAlphabet}

TurtleStrings == SymbolsUpTo(MaxSymbols)

\* branch_length, angle_deg, initial_diameter, diameter_scale of the two
\* scripts (0.2, 0.10, 0.85 and 0.9), with a quarter or a half turn for the
\* angle.
TreeParams ==
  {[branch_length |-> 2, angle_deg |-> 90,
    initial_diameter |-> <<1, 10>>, diameter_scale |-> <<17, 20>>],
   [branch_length |-> 2, angle_deg |-> 180,
    initial_diameter |-> <<1, 10>>, diameter_scale |-> <<9, 10>>]}

VecAdd(a, b) == <<a[1] + b[1], a[2] + b[2], a[3] + b[3]>>
VecTimes(k, a) == <<k * a[1], k * a[2], k * a[3]>>
VecNeg(a) == VecTimes(0 - 1, a)
FracTimes(a, b) == <<a[1] * b[1], a[2] * b[2]>>

\* The pair of axes a, b after a turn of q quarter turns from a towards b.
Turn(a, b, q) ==
  CASE q % 4 = 0 -> <<a, b>>
    [] q % 4 = 1 -> <<b, VecNeg(a)>>
    [] q % 4 = 2 -> <<VecNeg(a), VecNeg(b)>>
    [] q % 4 = 3 -> <<VecNeg(b), a>>

\* The current frame of the turtle t.
Frame(t) ==
  [position |-> t.position, forward |-> t.forward, left |-> t.left,
   up |-> t.up, diameter |-> t.diameter]

\* The turtle before the first symbol: at the origin, heading up, with the
\* initial diameter and an empty stack.
StartTurtle(p) ==
  [idx |-> 0,
   position |-> <<0, 0, 0>>,
   forward |-> <<0, 0, 1>>,
   left |-> <<0, 1, 0>>,
   up |-> <<0 - 1, 0, 0>>,
   diameter |-> p.initial_diameter,
   stack |-> <<>>,
   segments |-> <<>>,
   error |-> FALSE]

\* F, S: a segment from the position to the position + branch_length * forward,
\* and the turtle moves to its end.
DrawForward(t, p, c) ==
  LET end == VecAdd(t.position, VecTimes(p.branch_length, t.forward))
  IN  [t EXCEPT !.position = end,
                !.segments = Append(@, [start |-> t.position, end |-> end,
                                        type |-> c, diameter |-> t.diameter])]

\* f: the same move, no segment.
MoveForward(t, p) ==
  [t EXCEPT !.position = VecAdd(@, VecTimes(p.branch_length, t.forward))]

\* [: the current frame is copied onto the stack and the diameter of the new
\* level is the current one times diameter_scale.
Push(t, p) ==
  [t EXCEPT !.stack = Append(@, Frame(t)),
            !.diameter = FracTimes(@, p.diameter_scale)]

\* Mutant: ] on an empty stack goes on with the current frame.
Pop_silent(t) ==
  IF t.stack = <<>> THEN t
  ELSE LET saved == t.stack[Len(t.stack)]
       IN  [t EXCEPT !.position = saved.position,
                     !.forward = saved.forward,
                     !.left = saved.left,
                     !.up = saved.up,
                     !.diameter = saved.diameter,
                     !.stack = SubSeq(@, 1, Len(@) - 1)]

\* Mutant: the stack held the frame object itself, not a copy of it, so
\* what ] takes back is the frame as the moves since [ left it.
Pop_aliased(t) ==
  IF t.stack = <<>> THEN [t EXCEPT !.error = TRUE]
  ELSE [t EXCEPT !.stack = SubSeq(@, 1, Len(@) - 1)]

\* ]: the saved frame is taken off the stack and becomes the current one; on
\* an empty stack the interpretation fails.
Pop(t) ==
  IF t.stack = <<>> THEN [t EXCEPT !.error = TRUE]
  ELSE LET saved == t.stack[Len(t.stack)]
       IN  [t EXCEPT !.position = saved.position,
                     !.forward = saved.forward,
                     !.left = saved.left,
                     !.up = saved.up,
                     !.diameter = saved.diameter,
                     !.stack = SubSeq(@, 1, Len(@) - 1)]

\* + and -: a turn about up; | is a half turn about up.
Yaw(t, q) ==
  LET axes == Turn(t.forward, t.left, q)
  IN  [t EXCEPT !.forward = axes[1], !.left = axes[2]]

\* & and ^: a turn about left.
Pitch(t, q) ==
  LET axes == Turn(t.forward, t.up, q)
  IN  [t EXCEPT !.forward = axes[1], !.up = axes[2]]

\* \ and /: a turn about forward.
Roll(t, q) ==
  LET axes == Turn(t.left, t.up, q)
  IN  [t EXCEPT !.left = axes[1], !.up = axes[2]]

\* What the symbol c does to the turtle t; a symbol with no turtle action
\* does nothing.
Command(t, p, c) ==
  LET q == p.angle_deg \div 90
  IN  CASE c \in {"F", "S"} -> DrawForward(t, p, c)
        [] c = "f" -> MoveForward(t, p)
        [] c = "[" -> Push(t, p)
        [] c = "]" -> Pop(t)
        [] c = "+" -> Yaw(t, q)
        [] c = "-" -> Yaw(t, 4 - q)
        [] c = "|" -> Yaw(t, 2)
        [] c = "&" -> Pitch(t, q)
        [] c = "^" -> Pitch(t, 4 - q)
        [] c = "\\" -> Roll(t, q)
        [] c = "/" -> Roll(t, 4 - q)
        [] OTHER -> t

\* The turtle reads the symbol at its index.
TurtleStep(t, string, p) ==
  [Command(t, p, string[t.idx + 1]) EXCEPT !.idx = t.idx + 1]

\* The pass is over: the string is read to its end, or it failed.
TurtleDone(t, string) == t.error \/ t.idx >= Len(string)

\* The whole pass from the turtle t on.
RECURSIVE Interpret(_, _, _)
Interpret(t, string, p) ==
  IF TurtleDone(t, string) THEN t
  ELSE Interpret(TurtleStep(t, string, p), string, p)

\* generate_batch_trees(num_batches): num_batches branch lists, each one the
\* interpretation of the one string the LSystemTree was built from; made is
\* the number of the LSystem whose rewrite gave that string.
generate_batch_trees(string, p, num_batches, made) ==
  [k \in 1 .. num_batches |->
     [branches |-> Interpret(StartTurtle(p), string, p).segments,
      rewrite |-> made]]

\* -------------------------------------------------------------------- state

VARIABLES
  input_rules,    \* the list handed to Rule(...)
  axiom,          \* Axiom(...).initial_state
  rule,           \* Rule.list
  state,          \* LSystem.state
  matched_rules,  \* LSystem.matched_rules
  pc,             \* where the driving script is
  iterations,     \* iterate's argument
  gen,            \* iterate's loop index
  new_state,      \* iterate's new_state
  input_state,    \* step's input_state
  step_state,     \* step's new_state
  i,              \* step's cursor
  last,           \* the last match_rule call: its arguments, draw and result
  generations,    \* generations rewritten by this LSystem so far
  rng,            \* np.random's generator
  runs,           \* what the runs that ended left: iterations, state, counters
  fires,          \* match_rule calls of this LSystem in which a rule fired
  lsystems,       \* LSystem objects this process has built
  worlds,         \* what the worlds of this process left (tree_world_gen.py)
  tree_string,    \* the string LSystemTree was built from
  params,         \* LSystemTree's geometric parameters
  turtle,         \* the interpreter's state
  trees           \* what generate_batch_trees returned

vars ==
  <<input_rules, axiom, rule, state, matched_rules, pc, iterations, gen,
    new_state, input_state, step_state, i, last, generations, rng, runs,
    fires, lsystems, worlds, tree_string, params, turtle, trees>>

\* The variables of LSystemTree and of what it returns.
tree_vars == <<tree_string, params, turtle, trees>>

NoCall == [kind |-> "none"]

TypeOK ==
  /\ input_rules \in InputTables
  /\ axiom \in Axioms
  /\ pc \in {"main", "start", "rule", "idle", "for", "while", "tree", "done",
            "end"}
  /\ generations \in 0 .. MaxGen
  /\ i \in 0 .. Len(input_state)

\* What a script's run starts from, before it builds its Rule and LSystem.
Fresh ==
  /\ rule = <<>>
  /\ state = <<>>
  /\ matched_rules = <<>>
  /\ iterations = 0
  /\ gen = 0
  /\ new_state = <<>>
  /\ input_state = <<>>
  /\ step_state = <<>>
  /\ i = 0
  /\ last = NoCall
  /\ generations = 0
  /\ fires = 0
  /\ lsystems = 0
  /\ worlds = <<>>

\* No LSystemTree is built yet.
NoTree ==
  /\ tree_string = <<>>
  /\ params = <<>>
  /\ turtle = <<>>
  /\ trees = <<>>

InitCommon ==
  /\ input_rules \in InputTables
  /\ axiom \in Axioms
  /\ Fresh
  /\ NoTree
  /\ rng = Unseeded
  /\ runs = <<>>

\* run.py: no seed is set.
Init == InitCommon /\ pc = "start"

\* lsystem.py's main and tree_world_gen.py: the script starts by setting the seed.
InitSeeded == InitCommon /\ pc = "main"

\* ------------------------------------------------------------------ actions

\* Rule(input_rules)
RuleInit ==
  /\ pc = "start"
  /\ rule' = process_rules(input_rules)
  /\ pc' = "rule"
  /\ UNCHANGED <<input_rules, axiom, state, matched_rules, iterations, gen,
                 new_state, input_state, step_state, i, last, generations,
                 rng, runs>>
  /\ UNCHANGED <<fires, lsystems, worlds, tree_vars>>

\* LSystem(axiom=axiom, rule=rule)
LSystemInit ==
  /\ pc = "rule"
  /\ state' = axiom
  /\ matched_rules' = InitMatchedRules(rule)
  /\ pc' = "idle"
  /\ UNCHANGED <<input_rules, axiom, rule, iterations, gen, new_state,
                 input_state, step_state, i, last, generations, rng, runs>>
  /\ fires' = 0
  /\ lsystems' = lsystems + 1
  /\ UNCHANGED <<worlds, tree_vars>>

\* Mutant: iterate starts every call from the axiom instead of self.state.
IterateCall_from_axiom(n) ==
  /\ pc = "idle"
  /\ generations + n <= MaxGen
  /\ iterations' = n
  /\ gen' = 0
  /\ new_state' = axiom
  /\ pc' = "for"
  /\ UNCHANGED <<input_rules, axiom, rule, state, matched_rules, input_state,
                 step_state, i, last, generations, rng, runs>>
  /\ UNCHANGED <<fires, lsystems, worlds, tree_vars>>

\* lsystem.iterate(iterations=n), up to its loop.
IterateCall(n) ==
  /\ pc = "idle"
  /\ generations + n <= MaxGen
  /\ iterations' = n
  /\ gen' = 0
  /\ new_state' = state
  /\ pc' = "for"
  /\ UNCHANGED <<input_rules, axiom, rule, state, matched_rules, input_state,
                 step_state, i, last, generations, rng, runs>>
  /\ UNCHANGED <<fires, lsystems, worlds, tree_vars>>

\* step(new_state, self.rule), up to its loop.
StepCall ==
  /\ pc = "for"
  /\ gen < iterations
  /\ input_state' = new_state
  /\ step_state' = <<>>
  /\ i' = 0
  /\ pc' = "while"
  /\ last' = [kind |-> "step"]
  /\ UNCHANGED <<input_rules, axiom, rule, state, matched_rules, iterations,
                 gen, new_state, generations, rng, runs>>
  /\ UNCHANGED <<fires, lsystems, worlds, tree_vars>>

\* The draws the model follows a seeded generator for: MaxDraws for each
\* world the process has begun.
DrawCap == MaxDraws * (Len(worlds) + 1)

\* One turn of step's loop: match_rule draws u0 (line 26) and, when a rule
\* matches, u (line 50); its result is appended and the cursor advances.
StepMatch(u0, u) ==
  /\ pc = "while"
  /\ i < Len(input_state)
  /\ LET valid == valid_outputs(rule, input_state, i)
         us == IF valid = <<>> THEN <<u0>> ELSE <<u0, u>>
         res == match_rule(rule, input_state, i, u)
     IN /\ CanDraw(rng, us, DrawCap)
        /\ rng' = AfterDraw(rng, us)
        /\ matched_rules' = Count(matched_rules, res.fired)
        /\ step_state' = Emit(step_state, res.new_symbol)
        /\ i' = i + res.old_symbol_length
        /\ fires' = IF res.fired # <<>> THEN fires + 1 ELSE fires
        /\ last' = [kind |-> "match_rule",
                    step |-> IF last.kind = "match_rule"
                             THEN last.step + 1 ELSE 1,
                    initial_state |-> input_state,
                    current_index |-> i,
                    draws |-> Len(us),
                    chance_limit |-> u,
                    step_before |-> step_state,
                    matched_before |-> matched_rules,
                    old_symbol_length |-> res.old_symbol_length,
                    new_symbol |-> res.new_symbol,
                    fired |-> res.fired]
  /\ UNCHANGED <<input_rules, axiom, rule, state, pc, iterations, gen,
                 new_state, input_state, generations, runs>>
  /\ UNCHANGED <<lsystems, worlds, tree_vars>>

\* step returns: the generation's string becomes iterate's new_state.
StepReturn ==
  /\ pc = "while"
  /\ i >= Len(input_state)
  /\ new_state' = step_state
  /\ gen' = gen + 1
  /\ generations' = generations + 1
  /\ pc' = "for"
  /\ UNCHANGED <<input_rules, axiom, rule, state, matched_rules, iterations,
                 input_state, step_state, i, last, rng, runs>>
  /\ UNCHANGED <<fires, lsystems, worlds, tree_vars>>

\* iterate's loop is over: self.state = new_state.
IterateReturn ==
  /\ pc = "for"
  /\ gen >= iterations
  /\ state' = new_state
  /\ pc' = "idle"
  /\ last' = [kind |-> "iterate", before |-> state, iterations |-> iterations]
  /\ UNCHANGED <<input_rules, axiom, rule, matched_rules, iterations, gen,
                 new_state, input_state, step_state, i, generations, rng, runs>>
  /\ UNCHANGED <<fires, lsystems, worlds, tree_vars>>

\* lsystem.remove_symbol(symbol)
RemoveSymbol(symbol) ==
  /\ pc = "idle"
  /\ state' = remove_symbol(state, symbol)
  /\ last' = [kind |-> "remove_symbol", before |-> state, symbol |-> symbol,
              matched_before |-> matched_rules, rng_before |-> rng]
  /\ UNCHANGED <<input_rules, axiom, rule, matched_rules, pc, iterations, gen,
                 new_state, input_state, step_state, i, generations, rng, runs>>
  /\ UNCHANGED <<fires, lsystems, worlds, tree_vars>>

\* np.random.seed(0)
SeedCall ==
  /\ pc = "main"
  /\ Len(runs) < 2
  /\ rng' = Seeded(rng)
  /\ pc' = "start"
  /\ UNCHANGED <<input_rules, axiom, rule, state, matched_rules, iterations,
                 gen, new_state, input_state, step_state, i, last,
                 generations, runs>>
  /\ UNCHANGED <<fires, lsystems, worlds, tree_vars>>

\* The script's one call lsystem.iterate(iterations=n): n is a constant of the
\* script, the same in every run of it.
ScriptIterate(n) ==
  /\ last.kind = "none"
  /\ \A k \in 1 .. Len(runs) : runs[k].iterations = n
  /\ IterateCall(n)

\* The script ends after its iterate call, leaving its final string and
\* statistics, and is run again: a new process, whose generator is not seeded
\* yet.
Exit ==
  /\ pc = "idle"
  /\ last.kind = "iterate"
  /\ runs' = Append(runs, [iterations |-> iterations, state |-> state,
                           matched_rules |-> matched_rules,
                           generations |-> generations])
  /\ rule' = <<>>
  /\ state' = <<>>
  /\ matched_rules' = <<>>
  /\ iterations' = 0
  /\ gen' = 0
  /\ new_state' = <<>>
  /\ input_state' = <<>>
  /\ step_state' = <<>>
  /\ i' = 0
  /\ last' = NoCall
  /\ generations' = 0
  /\ rng' = [rng EXCEPT !.seeded = FALSE, !.pos = 0]
  /\ pc' = "main"
  /\ fires' = 0
  /\ lsystems' = 0
  /\ UNCHANGED <<input_rules, axiom, worlds, tree_vars>>

\* LSystemTree(string, branch_length, angle_deg, initial_diameter,
\* diameter_scale), with string = lsystem.state.
LSystemTreeInit(p) ==
  /\ pc = "idle"
  /\ tree_string' = state
  /\ params' = p
  /\ turtle' = StartTurtle(p)
  /\ trees' = <<>>
  /\ last' = [kind |-> "tree", marks |-> <<>>]
  /\ pc' = "tree"
  /\ UNCHANGED <<input_rules, axiom, rule, state, matched_rules, iterations,
                 gen, new_state, input_state, step_state, i, generations,
                 rng, runs, fires, lsystems, worlds>>

\* The interpreter reads one symbol.  last keeps what the turtle was before
\* it, and in marks the frames and stack depths met at the [ that have had
\* no ] yet; popped is the one this ] closes.
TurtleSymbol ==
  /\ pc = "tree"
  /\ ~TurtleDone(turtle, tree_string)
  /\ LET c == tree_string[turtle.idx + 1]
         mark == [frame |-> Frame(turtle), depth |-> Len(turtle.stack)]
         open == Len(last.marks)
     IN /\ turtle' = TurtleStep(turtle, tree_string, params)
        /\ last' = [kind |-> "turtle",
                    symbol |-> c,
                    before |-> turtle,
                    marks |-> CASE c = "[" -> Append(last.marks, mark)
                                [] c = "]" /\ open > 0 ->
                                     SubSeq(last.marks, 1, open - 1)
                                [] OTHER -> last.marks,
                    popped |-> IF c = "]" /\ open > 0
                               THEN <<last.marks[open]>> ELSE <<>>]
  /\ UNCHANGED <<input_rules, axiom, rule, state, matched_rules, pc,
                 iterations, gen, new_state, input_state, step_state, i,
                 generations, rng, runs, fires, lsystems, worlds,
                 tree_string, params, trees>>

\* all_trees = lsystem_tree.generate_batch_trees(num_batches=n)
GenerateBatchTrees(n) ==
  /\ pc = "tree"
  /\ trees' = generate_batch_trees(tree_string, params, n, lsystems)
  /\ last' = [kind |-> "batch", num_batches |-> n]
  /\ pc' = "done"
  /\ UNCHANGED <<input_rules, axiom, rule, state, matched_rules, iterations,
                 gen, new_state, input_state, step_state, i, generations,
                 rng, runs, fires, lsystems, worlds, tree_string, params,
                 turtle>>

\* run.py removes a symbol, if it does, once and right after iterate.
ScriptRemove(symbol) ==
  /\ last.kind = "iterate"
  /\ RemoveSymbol(symbol)

\* run.py builds the LSystemTree from the string its rewrite left.
ScriptTree(p) ==
  /\ last.kind \in {"iterate", "remove_symbol"}
  /\ LSystemTreeInit(p)

Next ==
  \/ RuleInit
  \/ LSystemInit
  \/ \E n \in 0 .. MaxGen : IterateCall(n)
  \/ StepCall
  \/ \E u0 \in Draws, u \in Draws : StepMatch(u0, u)
  \/ StepReturn
  \/ IterateReturn
  \/ \E symbol \in RemoveArgs : RemoveSymbol(symbol)

Spec == Init /\ [][Next]_vars

NextSeeded ==
  \/ SeedCall
  \/ RuleInit
  \/ LSystemInit
  \/ \E n \in 0 .. MaxGen : ScriptIterate(n)
  \/ StepCall
  \/ \E u0 \in Draws, u \in Draws : StepMatch(u0, u)
  \/ StepReturn
  \/ IterateReturn
  \/ Exit

SpecSeeded == InitSeeded /\ [][NextSeeded]_vars

\* The seeded script in two versions, run one after the other.  The first
\* version calls iterate several times in a row; the second calls it once,
\* with the sum of the first version's arguments.
SplitIterate(n) ==
  /\ \/ runs = <<>>
     \/ /\ Len(runs) = 1
        /\ last.kind = "none"
        /\ n = runs[1].generations
  /\ IterateCall(n)

NextSplit ==
  \/ SeedCall
  \/ RuleInit
  \/ LSystemInit
  \/ \E n \in 0 .. MaxGen : SplitIterate(n)
  \/ StepCall
  \/ \E u0 \in Draws, u \in Draws : StepMatch(u0, u)
  \/ StepReturn
  \/ IterateReturn
  \/ Exit

SpecSplit == InitSeeded /\ [][NextSplit]_vars

\* run.py from start to all_trees: one Rule, one LSystem, one iterate, a
\* remove_symbol or none, one LSystemTree, one generate_batch_trees.
NextBatch ==
  \/ RuleInit
  \/ LSystemInit
  \/ \E n \in 0 .. MaxGen : ScriptIterate(n)
  \/ StepCall
  \/ \E u0 \in Draws, u \in Draws : StepMatch(u0, u)
  \/ StepReturn
  \/ IterateReturn
  \/ \E symbol \in RemoveArgs : ScriptRemove(symbol)
  \/ \E p \in TreeParams : ScriptTree(p)
  \/ \E n \in 1 .. MaxBatches : GenerateBatchTrees(n)

SpecBatch == Init /\ [][NextBatch]_vars

\* An LSystem of an empty rule table was just built from a string of the
\* interpreter's symbols: lsystem.state is that string.
InitTurtle ==
  /\ input_rules = <<>>
  /\ axiom \in TurtleStrings
  /\ rule = <<>>
  /\ state = axiom
  /\ matched_rules = <<>>
  /\ iterations = 0
  /\ gen = 0
  /\ new_state = <<>>
  /\ input_state = <<>>
  /\ step_state = <<>>
  /\ i = 0
  /\ last = NoCall
  /\ generations = 0
  /\ fires = 0
  /\ lsystems = 1
  /\ worlds = <<>>
  /\ NoTree
  /\ rng = Unseeded
  /\ runs = <<>>
  /\ pc = "idle"

\* The interpreter's pass over any string, symbol by symbol.
NextTurtle ==
  \/ \E p \in TreeParams : LSystemTreeInit(p)
  \/ TurtleSymbol

SpecTurtle == InitTurtle /\ [][NextTurtle]_vars

\* tree_world_gen.py: the generator is seeded once, then every world builds
\* its own LSystem and rewrites; np.random goes on from world to world.

\* The symbol tree_world_gen.py removes.
A == <<"A">>

\* branch_length, angle, initial_diameter, diameter_scale of tree_world_gen.py.
WorldParams == CHOOSE p \in TreeParams : p.diameter_scale = <<9, 10>>

\* lsystem.iterate(iterations=n), the one call of a world.  The script is run
\* twice: as it is, with one n for all its worlds, and then with a first
\* world of any n and the later worlds as before.
WorldIterate(n) ==
  /\ pc = "idle"
  /\ last.kind = "none"
  /\ (runs = <<>> /\ worlds # <<>>) => n = worlds[1].iterations
  /\ (runs # <<>> /\ worlds # <<>>) =>
       n = runs[1].worlds[Len(worlds) + 1].iterations
  /\ IterateCall(n)

\* The rest of the loop body: remove_symbol("A"), LSystemTree,
\* generate_batch_trees(num_batches=1), and the world's string, statistics
\* and branches are saved.  The next world builds a new LSystem.
WorldEnd ==
  /\ pc = "idle"
  /\ last.kind = "iterate"
  /\ LET string == remove_symbol(state, A)
     IN  worlds' = Append(worlds,
           [iterations |-> iterations,
            state |-> string,
            matched_rules |-> matched_rules,
            trees |-> generate_batch_trees(string, WorldParams, 1, lsystems)])
  /\ state' = <<>>
  /\ matched_rules' = <<>>
  /\ iterations' = 0
  /\ gen' = 0
  /\ new_state' = <<>>
  /\ input_state' = <<>>
  /\ step_state' = <<>>
  /\ i' = 0
  /\ last' = NoCall
  /\ generations' = 0
  /\ fires' = 0
  /\ pc' = IF Len(worlds) + 1 < MaxWorlds THEN "rule" ELSE "end"
  /\ UNCHANGED <<input_rules, axiom, rule, rng, runs, lsystems, tree_vars>>

\* The script ends after its last world, leaving what its worlds saved, and
\* is run again: a new process, whose generator is not seeded yet.
ExitWorlds ==
  /\ pc = "end"
  /\ runs' = Append(runs, [worlds |-> worlds])
  /\ worlds' = <<>>
  /\ rule' = <<>>
  /\ lsystems' = 0
  /\ rng' = [rng EXCEPT !.seeded = FALSE, !.pos = 0]
  /\ pc' = "main"
  /\ UNCHANGED <<input_rules, axiom, state, matched_rules, iterations, gen,
                 new_state, input_state, step_state, i, last, generations,
                 fires, tree_vars>>

NextWorlds ==
  \/ SeedCall
  \/ RuleInit
  \/ LSystemInit
  \/ \E n \in 0 .. MaxGen : WorldIterate(n)
  \/ StepCall
  \/ \E u0 \in Draws, u \in Draws : StepMatch(u0, u)
  \/ StepReturn
  \/ IterateReturn
  \/ WorldEnd
  \/ ExitWorlds

\* The plant of tree_world_gen.py is one of the stochastic tables.
InitWorlds ==
  /\ InitSeeded
  /\ input_rules \in {STOCHASTIC, SUB_UNITY, DUPLICATE_RULES, BASIC_EXAMPLE}

SpecWorlds == InitWorlds /\ [][NextWorlds]_vars

\* ------------------------------------------------------------------- claims

\* The last step was a match_rule call of step's loop.
LastMatch == last.kind = "match_rule"

\* Pattern symbol occurs in s at the 0-based position idx.
OccursAt(symbol, s, idx) ==
  /\ idx + Len(symbol) <= Len(s)
  /\ \A j \in 1 .. Len(symbol) : s[idx + j] = symbol[j]

\* The table indices of the rules whose pattern occurs at the last call's cursor.
MatchingAt ==
  {k \in 1 .. Len(rule) : OccursAt(rule[k].symbol, last.initial_state, last.current_index)}

\* Those of them that no matching rule has a longer pattern than.
LongestAt ==
  {k \in MatchingAt :
     \A m \in MatchingAt : Len(rule[m].symbol) <= Len(rule[k].symbol)}

\* The sum of the weights of the longest-match candidates up to table index k.
RECURSIVE CumWeight(_)
CumWeight(k) ==
  IF k = 0 THEN 0
  ELSE CumWeight(k - 1) + (IF k \in LongestAt THEN rule[k].chance ELSE 0)

\* The last call fired the rule at table index k: its replacement was appended
\* to the generation's string and the cursor moved past its pattern.
FiredRule(k) ==
  /\ last.fired = <<rule[k]>>
  /\ last.new_symbol = rule[k].new_symbol
  /\ step_state = last.step_before \o rule[k].new_symbol
  /\ last.old_symbol_length = Len(rule[k].symbol)
  /\ i = last.current_index + Len(rule[k].symbol)

\* C1: when rules of different pattern lengths match at the cursor, only a rule
\* of the longest matching pattern fires, whatever the weights and the table
\* order; one generation of F -> X (1.0), FF -> Y (1.0) on FF gives Y.
C1_LongestMatchWins ==
  /\ (LastMatch /\ last.fired # <<>>) =>
       \A k \in MatchingAt : Len(rule[k].symbol) <= Len(last.fired[1].symbol)
  /\ (/\ input_rules = LONGEST_EXAMPLE
      /\ pc = "idle"
      /\ last.kind = "iterate"
      /\ last.before = FF
      /\ last.iterations = 1) => state = Y

\* A rule fired although a rule of a shorter pattern matched there too.
C1_Witness ==
  /\ LastMatch
  /\ last.fired # <<>>
  /\ \E k \in MatchingAt : Len(rule[k].symbol) < Len(last.fired[1].symbol)
  /\ \E k \in MatchingAt : rule[k].chance = One /\ Len(rule[k].symbol) = 1

\* C2 as claimed: the rule that fires is the first longest-match candidate, in
\* table order, whose cumulative weight is >= the draw, zero weights included.
C2_FirstReachingFires ==
  LastMatch =>
    \A k \in LongestAt :
      (/\ CumWeight(k) >= last.chance_limit
       /\ \A m \in LongestAt : m < k => CumWeight(m) < last.chance_limit)
      => FiredRule(k)

\* C2, amended: the rule that fires is the first longest-match candidate of a
\* weight other than 0, in table order, whose cumulative weight is >= the
\* draw; its replacement is emitted and the cursor advances by its pattern length.
C2_FirstNonZeroReachingFires ==
  LastMatch =>
    \A k \in LongestAt :
      (/\ rule[k].chance # 0
       /\ CumWeight(k) >= last.chance_limit
       /\ \A m \in LongestAt :
            (m < k /\ rule[m].chance # 0) => CumWeight(m) < last.chance_limit)
      => FiredRule(k)

\* The second of two candidates fired, on a draw the first one's weight did
\* not reach and its own cumulative weight equals.
C2_Witness ==
  /\ LastMatch
  /\ \E k \in LongestAt :
       /\ FiredRule(k)
       /\ \E m \in LongestAt : m < k /\ rule[m].chance > 0
       /\ CumWeight(k) = last.chance_limit

\* C3: a rule of weight 0 never fires, and a rule of weight 1.0 that is the
\* only longest-match candidate at a position fires there, on every draw.
C3_WeightBounds ==
  LastMatch =>
    /\ last.fired # <<>> => last.fired[1].chance # 0
    /\ \A k \in LongestAt :
         (LongestAt = {k} /\ rule[k].chance = One) => FiredRule(k)

\* On the draw 0 a candidate of weight 0 came first and did not fire.
C3_Witness ==
  /\ LastMatch
  /\ last.chance_limit = 0
  /\ \E k \in LongestAt, m \in LongestAt :
       /\ m < k
       /\ rule[m].chance = 0
       /\ rule[k].chance = One
       /\ FiredRule(k)

\* C4: when a rule of weight 0 has the longest matching pattern at a position,
\* no rule of a shorter pattern fires there.
C4_ZeroWeightStillGroups ==
  LastMatch =>
    \A k \in LongestAt :
      rule[k].chance = 0 =>
        \/ last.fired = <<>>
        \/ Len(last.fired[1].symbol) = Len(rule[k].symbol)

\* A weight-0 rule had the longest match, a weight-1.0 rule a shorter one, and
\* nothing fired.
C4_Witness ==
  /\ LastMatch
  /\ \E k \in LongestAt : rule[k].chance = 0
  /\ \E m \in MatchingAt \ LongestAt : rule[m].chance = One
  /\ last.fired = <<>>
  /\ last.old_symbol_length = 2

\* C5: when rules match and no longest-match candidate's cumulative weight
\* reaches the draw, no rule fires: the whole longest-matched substring is
\* emitted unchanged and the cursor advances by its length.
C5_SubUnityFallback ==
  (/\ LastMatch
   /\ MatchingAt # {}
   /\ \A k \in LongestAt : CumWeight(k) < last.chance_limit) =>
    \E k \in LongestAt :
      /\ last.fired = <<>>
      /\ matched_rules = last.matched_before
      /\ last.new_symbol = rule[k].symbol
      /\ step_state = last.step_before \o rule[k].symbol
      /\ last.old_symbol_length = Len(rule[k].symbol)
      /\ i = last.current_index + Len(rule[k].symbol)

\* A group of positive total weight below the draw fell back on a pattern of
\* two symbols.
C5_Witness ==
  /\ LastMatch
  /\ \E k \in LongestAt : rule[k].chance > 0 /\ Len(rule[k].symbol) = 2
  /\ \A k \in LongestAt : CumWeight(k) < last.chance_limit
  /\ last.fired = <<>>
  /\ last.new_symbol = FF

\* No pattern of the table occurs anywhere in s.
NoPatternIn(s) ==
  \A idx \in 0 .. (Len(s) - 1), k \in 1 .. Len(rule) :
    ~OccursAt(rule[k].symbol, s, idx)

\* C6: where no pattern matches, the step emits the one symbol at the cursor
\* and advances by 1; so iterate returns a string no pattern occurs in
\* unchanged, for every number of generations.
C6_NoMatchIdentity ==
  /\ (LastMatch /\ MatchingAt = {}) =>
       /\ last.fired = <<>>
       /\ last.new_symbol = <<last.initial_state[last.current_index + 1]>>
       /\ step_state = Append(last.step_before,
                              last.initial_state[last.current_index + 1])
       /\ last.old_symbol_length = 1
       /\ i = last.current_index + 1
  /\ (last.kind = "iterate" /\ NoPatternIn(last.before)) => state = last.before

\* iterate(2) returned a string of two symbols that no pattern occurs in.
C6_Witness ==
  /\ last.kind = "iterate"
  /\ last.iterations = 2
  /\ Len(last.before) = 2
  /\ NoPatternIn(last.before)
  /\ state = last.before

\* C7: from the axiom FR, with F -> FRF of weight 1.0 ahead of F -> FFFR of
\* weight 0 and R matched by no rule, one generation leaves FRFR and two leave
\* FRFRFRFR, on every sequence of draws.
C7_BasicExample ==
  (input_rules = BASIC_EXAMPLE /\ axiom = FR) =>
    /\ (last.kind = "iterate" /\ last.before = axiom) =>
         /\ last.iterations = 1 => state = FRFR
         /\ last.iterations = 2 => state = FRFRFRFR
    /\ (last.kind = "iterate" /\ last.before = FRFR) =>
         (last.iterations = 1 => state = FRFRFRFR)

\* iterate(2) on the axiom FR returned FRFRFRFR.
C7_Witness ==
  /\ input_rules = BASIC_EXAMPLE
  /\ axiom = FR
  /\ last.kind = "iterate"
  /\ last.before = FR
  /\ last.iterations = 2
  /\ state = FRFRFRFR

\* C8: two runs with the same axiom, rule table, generation count and seed end
\* with the same final string and the same rule-match statistics.
C8_SameSeedSameResult ==
  \A a \in 1 .. Len(runs), b \in 1 .. Len(runs) :
    runs[a].iterations = runs[b].iterations =>
      /\ runs[a].state = runs[b].state
      /\ runs[a].matched_rules = runs[b].matched_rules

\* Two seeded runs ended, in both the second of two rules of weight 1/Scale
\* had fired.
C8_Witness ==
  /\ Len(runs) = 2
  /\ input_rules = STOCHASTIC
  /\ runs[1].iterations = 1
  /\ runs[2].iterations = 1
  /\ runs[1].state = Y
  /\ runs[2].state = Y

\* C9 as claimed: Rule(...) rejects a negative weight, so no table holding one
\* reaches match_rule.
C9_NegativeWeightRejected ==
  LastMatch => \A k \in 1 .. Len(rule) : rule[k].chance >= 0

\* C10: remove_symbol(c) for one symbol c leaves the state with every c deleted
\* and the other symbols in their order; no counter changes and no draw is made.
C10_RemoveSymbolFilters ==
  (last.kind = "remove_symbol" /\ Len(last.symbol) = 1) =>
    /\ state = SelectSeq(last.before, LAMBDA c : c # last.symbol[1])
    /\ matched_rules = last.matched_before
    /\ rng = last.rng_before

\* remove_symbol("F") turned FRFR into RR after a rule had fired.
C10_Witness ==
  /\ last.kind = "remove_symbol"
  /\ last.symbol = F
  /\ last.before = FRFR
  /\ state = <<"R", "R">>
  /\ \E key \in DOMAIN matched_rules : matched_rules[key] > 0
  /\ rng.pos > 0

\* A program step that is one match_rule call of the scan (lines 70-73).
MatchStep == pc = "while" /\ pc' = "while"

\* C11: over every step of the program each counter of the LSystem keeps its
\* value or grows by exactly 1, and it grows exactly in a match_rule step in
\* which a rule of its key fires: no-match steps, sub-unity fallback steps,
\* remove_symbol and the calls and returns of iterate leave every counter as
\* it was.
C11_CountersGrowOnlyOnFire ==
  [][\A key \in (DOMAIN matched_rules) \cap (DOMAIN matched_rules') :
       LET grows == /\ MatchStep
                    /\ last'.fired # <<>>
                    /\ key = rule_key(last'.fired[1])
       IN  /\ matched_rules'[key] >= matched_rules[key]
           /\ matched_rules'[key] =
                matched_rules[key] + (IF grows THEN 1 ELSE 0)]_vars

\* A no-match step taken after a counter had grown more than once: the
\* counters are what they were before the step.
C11_Witness ==
  /\ LastMatch
  /\ MatchingAt = {}
  /\ last.fired = <<>>
  /\ matched_rules = last.matched_before
  /\ \E key \in DOMAIN matched_rules : matched_rules[key] >= 2

\* C16: a match_rule call takes exactly one uniform draw when at least one rule
\* matches at the cursor, and no draw when no rule matches there.
C16_OneDrawPerMatchingPosition ==
  LastMatch => last.draws = (IF MatchingAt # {} THEN 1 ELSE 0)

\* C17: one generation's scan of a string of length L is over after at most L
\* match_rule calls: the first call is at cursor 0, every call moves the
\* cursor on by at least 1 and by at most what is left of the string, so the
\* k-th call leaves the cursor at k or more and at L or less, and step
\* returns with the cursor exactly at L.
C17_ScanEndsAtLength ==
  /\ pc \in {"while", "for"} => i <= Len(input_state)
  /\ LastMatch =>
       /\ last.step = 1 => last.current_index = 0
       /\ last.old_symbol_length >= 1
       /\ last.old_symbol_length <= Len(last.initial_state) - last.current_index
       /\ i = last.current_index + last.old_symbol_length
       /\ last.step <= i
       /\ last.step <= Len(last.initial_state)
  /\ (pc = "for" /\ gen >= 1) => i = Len(input_state)

\* A scan that is over after fewer calls than the string has symbols: its
\* last call consumed a pattern of two symbols and left the cursor at L.
C17_Witness ==
  /\ pc = "for"
  /\ gen >= 1
  /\ LastMatch
  /\ last.old_symbol_length = 2
  /\ last.step < Len(input_state)
  /\ i = Len(input_state)

\* The sum of the counters of the keys in keys.
RECURSIVE SumOver(_, _)
SumOver(matched, keys) ==
  IF keys = {} THEN 0
  ELSE LET key == CHOOSE k \in keys : TRUE
       IN  matched[key] + SumOver(matched, keys \ {key})

\* C19: at every point of the life of one LSystem the sum of its counters is
\* the number of match_rule calls so far, over all generations and all iterate
\* calls, in which a rule fired; also when two rules of the table have the same
\* pattern and replacement and so share one counter.
C19_CounterSumIsFirings ==
  SumOver(matched_rules, DOMAIN matched_rules) = fires

\* An LSystem of a table with two rules under one key, after two generations:
\* the shared counter has counted firings of both generations.
C19_Witness ==
  /\ pc = "idle"
  /\ generations = 2
  /\ Cardinality(DOMAIN matched_rules) < Len(rule)
  /\ fires >= 3
  /\ \E k \in 1 .. Len(rule), m \in 1 .. Len(rule) :
       /\ k # m
       /\ rule[k] = rule[m]
       /\ matched_rules[rule_key(rule[k])] >= 2

\* C18: under the same draws, calls of iterate whose arguments add up to n
\* leave the final string and the statistics that one call iterate(n) leaves;
\* and iterate(0) returns with the state it was called with.
C18_IterateComposes ==
  /\ \A a \in 1 .. Len(runs), b \in 1 .. Len(runs) :
       runs[a].generations = runs[b].generations =>
         /\ runs[a].state = runs[b].state
         /\ runs[a].matched_rules = runs[b].matched_rules
  /\ (last.kind = "iterate" /\ last.iterations = 0) => state = last.before

\* Two runs are over: the first ended with a call iterate(b), b > 0, after
\* earlier calls had made a > 0 generations, the second made one call
\* iterate(a + b); rules fired and the string changed.
C18_Witness ==
  /\ Len(runs) = 2
  /\ runs[1].iterations > 0
  /\ runs[1].iterations < runs[1].generations
  /\ runs[2].iterations = runs[1].generations
  /\ runs[2].state # axiom
  /\ \E key \in DOMAIN runs[2].matched_rules : runs[2].matched_rules[key] > 0

\* Two runs are over: the first ended with a call iterate(0) after a call
\* that made generations, the second made that call alone.
C18_WitnessZero ==
  /\ Len(runs) = 2
  /\ runs[1].iterations = 0
  /\ runs[1].generations > 0
  /\ runs[2].iterations = runs[1].generations
  /\ runs[2].state # axiom

\* The last step of the program was the interpreter reading a symbol.
LastSymbol == last.kind = "turtle"

\* C14: when the interpreter reads ] with an empty stack the interpretation
\* is in the error state and has emitted no segment by that step; and an
\* interpretation in the error state got there by such a ] and has taken no
\* step since, so it emits nothing further.
C14_PopOnEmptyStackFails ==
  /\ (LastSymbol /\ last.symbol = "]" /\ last.before.stack = <<>>) =>
       /\ turtle.error
       /\ turtle.segments = last.before.segments
  /\ (pc = "tree" /\ turtle.error) =>
       /\ LastSymbol
       /\ last.symbol = "]"
       /\ last.before.stack = <<>>
       /\ ~last.before.error
       /\ turtle.segments = last.before.segments
       /\ TurtleDone(turtle, tree_string)

\* The interpreter failed at a ] after it had drawn a segment, with a
\* drawing symbol still unread behind the ].
C14_Witness ==
  /\ pc = "tree"
  /\ turtle.error
  /\ turtle.segments # <<>>
  /\ turtle.idx < Len(tree_string)
  /\ tree_string[turtle.idx + 1] = "F"

\* C15: when the interpreter reads the ] that closes a [, the position and
\* the orientation are those of the frame just before that [, and the stack
\* is as deep as it was before that [.
C15_BracketRestoresFrame ==
  (LastSymbol /\ last.symbol = "]" /\ last.popped # <<>>) =>
    LET at_push == last.popped[1]
    IN  /\ ~turtle.error
        /\ turtle.position = at_push.frame.position
        /\ turtle.forward = at_push.frame.forward
        /\ turtle.left = at_push.frame.left
        /\ turtle.up = at_push.frame.up
        /\ Len(turtle.stack) = at_push.depth

\* The string [F] was read to its end: the ] took the turtle back from the
\* end of the segment to where it stood before the [.
C15_Witness ==
  /\ tree_string = <<"[", "F", "]">>
  /\ LastSymbol
  /\ last.symbol = "]"
  /\ last.popped # <<>>
  /\ turtle.idx = 3
  /\ Len(turtle.segments) = 1
  /\ last.before.position # turtle.position
  /\ turtle.position = turtle.segments[1].start

\* C12: the trees of one batch each come from a rewrite of their own: no two
\* of them were interpreted from the string of the same LSystem.
C12_OwnRewritePerTree ==
  \A a \in 1 .. Len(trees), b \in 1 .. Len(trees) :
    a # b => trees[a].rewrite # trees[b].rewrite

\* C13: with the same seed, axiom and rules, the final string of a world
\* depends on its own number of generations only, not on what the worlds
\* before it did: two runs of the script agree on the string of every world
\* they gave the same number of generations.
C13_WorldIndependentOfEarlierDraws ==
  \A a \in 1 .. Len(runs), b \in 1 .. Len(runs) :
    \A w \in 1 .. MaxWorlds :
      runs[a].worlds[w].iterations = runs[b].worlds[w].iterations =>
        runs[a].worlds[w].state = runs[b].worlds[w].state

====
